---- MODULE Spec2Model ----
(***************************************************************************)
(* zustand-x: createStore(name)(createState, options).                     *)
(*                                                                         *)
(* The model follows createStore statement by statement: the middleware    *)
(* list, its reduction over the initializer, the creation of the zustand   *)
(* store, the four accessor generators, the composite API and              *)
(* storeFactory.  JavaScript values are records with a `kind`; a method    *)
(* call on a value that lacks the method raises a TypeError, as the        *)
(* language does.                                                          *)
(***************************************************************************)
EXTENDS Integers, Sequences, FiniteSets, TLC

VARIABLES
    pc,          \* "start" | "named" | "returned" | "threw"
    name,        \* the store name bound by createStore(name)
    createState, \* the initializer passed to the inner call
    options,     \* the options passed to the inner call
    envFault,    \* TRUE when an enabled middleware raises during store creation
    handed,      \* the state creators handed to createStoreZustand (line 71)
    stores,      \* the zustand stores that exist (their state)
    error,       \* the error the call raised, "none" when it returned
    apis         \* the composite API objects handed back to the caller

vars == <<pc, name, createState, options, envFault, handed, stores, error, apis>>

----------------------------------------------------------------------------
(* Bounds of the model *)

MaxFields == 2
MaxVal == 1

FieldNames == <<"name", "stars", "owner", "middlewares">>
Fields == {FieldNames[i] : i \in 1..MaxFields}
Values == 0..MaxVal
StoreNames == {"repo", "auth"}

NoName == ""
EmptyMap == [k \in {} |-> ""]

----------------------------------------------------------------------------
(* Inputs *)

\* A state object: top-level field -> value.
States == UNION {[K -> Values] : K \in SUBSET Fields}

\* An initializer either yields a state object or throws.
CreateStates ==
    {[throws |-> FALSE, state |-> s] : s \in States}
        \cup {[throws |-> TRUE, state |-> EmptyMap]}

\* A middleware option object: `enabled`, `name` and one pass-through option,
\* each of them optional.
OptKeys == {"enabled", "name", "extra"}
OptValues(k) ==
    CASE k = "enabled" -> {"true", "false"}
      [] k = "name" -> {"custom"}
      [] OTHER -> {"x"}
OptionObjects ==
    {o \in UNION {[D -> {"true", "false", "custom", "x"}] : D \in SUBSET OptKeys} :
        \A k \in DOMAIN o : o[k] \in OptValues(k)}

\* TCreateStoreOptions: `devtools` and `persist`, both optional.
OptionsObjects ==
    UNION {[D -> OptionObjects] : D \in SUBSET {"devtools", "persist"}}

\* devtools?.enabled, persist?.enabled
enabled(opts, mw) ==
    /\ mw \in DOMAIN opts
    /\ "enabled" \in DOMAIN opts[mw]
    /\ opts[mw]["enabled"] = "true"

----------------------------------------------------------------------------
(* createStore, lines 45-71: middleware *)

\* Variant of devtoolsOptions with the spread last, { name, ...devtools }: a
\* name in the devtools options would override the store name.
devtoolsOptionsSpreadLast(devtools, n) ==
    [k \in DOMAIN devtools \cup {"name"} |->
        IF k \in DOMAIN devtools THEN devtools[k] ELSE n]

\* { ...devtools, name }
devtoolsOptions(devtools, n) ==
    [k \in DOMAIN devtools \cup {"name"} |->
        IF k = "name" THEN n ELSE devtools[k]]

\* { ...persist, name: persist.name ?? name }
persistOptions(persist, n) ==
    [k \in DOMAIN persist \cup {"name"} |->
        IF k = "name"
        THEN (IF "name" \in DOMAIN persist THEN persist["name"] ELSE n)
        ELSE persist[k]]

\* Variant of middlewares with the two pushes in the other order: persist
\* would wrap innermost, devtools outermost.
middlewaresPersistFirst(n, opts) ==
    LET m0 == <<>>
        m1 == IF enabled(opts, "persist")
              THEN Append(m0, [mw |-> "persist",
                               opts |-> [k \in DOMAIN opts["persist"] \cup {"name"} |->
                                   IF k = "name"
                                   THEN (IF "name" \in DOMAIN opts["persist"]
                                         THEN opts["persist"]["name"] ELSE n)
                                   ELSE opts["persist"][k]]])
              ELSE m0
        m2 == IF enabled(opts, "devtools")
              THEN Append(m1, [mw |-> "devtools",
                               opts |-> devtoolsOptions(opts["devtools"], n)])
              ELSE m1
    IN  m2

\* The list `middlewares` after the two conditional pushes.
middlewares(n, opts) ==
    LET m0 == <<>>
        m1 == IF enabled(opts, "devtools")
              THEN Append(m0, [mw |-> "devtools",
                               opts |-> devtoolsOptions(opts["devtools"], n)])
              ELSE m0
        m2 == IF enabled(opts, "persist")
              THEN Append(m1, [mw |-> "persist",
                               opts |-> persistOptions(opts["persist"], n)])
              ELSE m1
    IN  m2

\* fn(y): the state creator y wrapped by the middleware fn.  A state creator
\* is the initializer and its wrappers, innermost first.
wrap(fn, y) == [y EXCEPT !.wrappers = Append(@, fn)]

\* middlewares.reduce((y, fn) => fn(y), createState)
RECURSIVE reduce(_, _)
reduce(fns, y) ==
    IF fns = <<>> THEN y ELSE reduce(Tail(fns), wrap(Head(fns), y))

stateMutators(n, cs, opts) ==
    reduce(middlewares(n, opts), [init |-> cs, wrappers |-> <<>>])

----------------------------------------------------------------------------
(* JavaScript values and method calls *)

storeObject(state) == [kind |-> "store", state |-> state]
functionObject(state) == [kind |-> "function", state |-> state]

\* The methods a value carries.
methods(v) ==
    IF v.kind = "store"
    THEN {"getState", "setState", "getInitialState", "subscribe"}
    ELSE {}

\* createTrackedSelector(useStore): a hook, a plain function.
createTrackedSelector(useStore) == functionObject(useStore.state)

accessor(op, field, via) == [op |-> op, field |-> field, via |-> via]


\* { ...a, ...b }: the keys of b override the same-named keys of a.
merge(a, b) ==
    [k \in DOMAIN a \cup DOMAIN b |-> IF k \in DOMAIN b THEN b[k] ELSE a[k]]

----------------------------------------------------------------------------
(* The accessor generators.  Each returns the accessor map, or raises. *)

raised == [threw |-> TRUE, selectors |-> EmptyMap]
returned(selectors) == [threw |-> FALSE, selectors |-> selectors]

\* generateStateGetSelectors(store): key -> () => store.getState()[key]
generateStateGetSelectors(store) ==
    IF "getState" \notin methods(store)
    THEN raised
    ELSE returned([key \in DOMAIN store.state |-> accessor("get", key, store.kind)])

\* generateStateActions(store, storeName): key -> (value) => store.setState(...)
generateStateActions(store, storeName) ==
    IF "getState" \notin methods(store)
    THEN raised
    ELSE returned([key \in DOMAIN store.state |-> accessor("set", key, store.kind)])

\* generateStateHookSelectors(useStore, store): key -> (equalityFn) => useStore(...)
generateStateHookSelectors(useStore, store) ==
    IF "getState" \notin methods(store)
    THEN raised
    ELSE returned([key \in DOMAIN store.state |-> accessor("use", key, useStore.kind)])

\* generateStateTrackedHooksSelectors(store, trackedStore):
\*   Object.keys(store.getState()).forEach(key => selectors[key] = () => trackedStore()[key])
generateStateTrackedHooksSelectors(store, trackedStore) ==
    IF "getState" \notin methods(store)
    THEN raised
    ELSE returned([key \in DOMAIN store.state |->
                      accessor("useTracked", key, trackedStore.kind)])

----------------------------------------------------------------------------
(* The composite API, storeFactory and the extension methods *)

\* The object literal of lines 90-108.
apiInternal(n, store, getterSelectors, stateActions, hookSelectors, trackedHooksSelectors) ==
    [ name |-> n,
      get |-> merge([state |-> accessor("getState", "", store.kind)], getterSelectors),
      set |-> merge([state |-> accessor("setState", "", store.kind)], stateActions),
      store |-> store,
      use |-> hookSelectors,
      useTracked |-> trackedHooksSelectors,
      extendSelectors |-> "stub",
      extendActions |-> "stub" ]

\* storeFactory: a new object, the api's members with the two extension
\* methods replaced by the ones that extend and wrap again.
storeFactory(api) ==
    [api EXCEPT !.extendSelectors = "storeFactory", !.extendActions = "storeFactory"]

\* A builder: an identity and the names it registers.
Builders ==
    {[id |-> i, names |-> N] :
        i \in {"B1", "B2"}, N \in SUBSET (Fields \cup {"validName", "title"})}

built(op, builder) == [n \in builder.names |-> accessor(op, n, builder.id)]

\* utils extendSelectors(builder, api): the builder's selectors merged into get.
extendSelectors(builder, api) ==
    [api EXCEPT !.get = merge(@, built("selector", builder))]

\* utils extendActions(builder, api): the builder's actions merged into set.
extendActions(builder, api) ==
    [api EXCEPT !.set = merge(@, built("action", builder))]

\* api.extendSelectors(builder) and api.extendActions(builder) of an object
\* made by storeFactory (lines 116-119).
callExtendSelectors(api, builder) == storeFactory(extendSelectors(builder, api))
callExtendActions(api, builder) == storeFactory(extendActions(builder, api))

\* api.set.<key>(v) on store state s: a generated setter merges { field: v }
\* into the state; set.state(partial) merges the partial.
callSet(api, s, key, v) ==
    LET a == api.set[key]
    IN  IF a.op = "set" THEN merge(s, [k \in {a.field} |-> v]) ELSE s
callSetState(api, s, partial) == merge(s, partial)

\* api.get.<key>() on store state s: a generated getter projects the field;
\* a selector registered by a builder returns what the builder computes.
Derived == MaxVal + 1
callGet(api, s, key) ==
    LET a == api.get[key]
    IN  IF a.op = "get" THEN s[a.field] ELSE Derived

----------------------------------------------------------------------------
(* createStore(name)(createState, options), lines 45-110 *)

\* What the inner call does: the creator it hands to createStoreZustand, the
\* store it creates, the error it raises and the API it returns.
createStore(n, cs, opts, fault) ==
    LET sm == stateMutators(n, cs, opts)
        creation == IF fault THEN "MiddlewareError"
                    ELSE IF cs.throws THEN "InitializerError"
                    ELSE "none"
        store == storeObject(cs.state)
        getterSelectors == generateStateGetSelectors(store)
        useStore == functionObject(cs.state)
        stateActions == generateStateActions(store, n)
        hookSelectors == generateStateHookSelectors(useStore, store)
        useTrackedStore == createTrackedSelector(useStore)
        trackedHooksSelectors ==
            generateStateTrackedHooksSelectors(useTrackedStore, store)
        generation == IF \/ getterSelectors.threw
                         \/ stateActions.threw
                         \/ hookSelectors.threw
                         \/ trackedHooksSelectors.threw
                      THEN "TypeError" ELSE "none"
        api == storeFactory(apiInternal(n, store,
                                        getterSelectors.selectors,
                                        stateActions.selectors,
                                        hookSelectors.selectors,
                                        trackedHooksSelectors.selectors))
    IN  IF creation # "none"
        THEN [handed |-> <<sm>>, stores |-> <<>>, error |-> creation, apis |-> <<>>]
        ELSE IF generation # "none"
        THEN [handed |-> <<sm>>, stores |-> <<cs.state>>, error |-> generation,
              apis |-> <<>>]
        ELSE [handed |-> <<sm>>, stores |-> <<cs.state>>, error |-> "none",
              apis |-> <<api>>]

----------------------------------------------------------------------------
(* The state machine *)

Init ==
    /\ pc = "start"
    /\ name = NoName
    /\ createState = [throws |-> FALSE, state |-> EmptyMap]
    /\ options = EmptyMap
    /\ envFault = FALSE
    /\ handed = <<>>
    /\ stores = <<>>
    /\ error = "none"
    /\ apis = <<>>

\* createStore(name): binds the name and returns the inner function.
CreateStoreName(n) ==
    /\ pc = "start"
    /\ pc' = "named"
    /\ name' = n
    /\ UNCHANGED <<createState, options, envFault, handed, stores, error, apis>>

\* The inner call (createState, options), run to its return or its throw.
CreateStoreCall(cs, opts, fault) ==
    /\ pc = "named"
    /\ fault => (enabled(opts, "devtools") \/ enabled(opts, "persist"))
    /\ LET r == createStore(name, cs, opts, fault)
       IN  /\ handed' = handed \o r.handed
           /\ stores' = stores \o r.stores
           /\ error' = r.error
           /\ apis' = apis \o r.apis
           /\ pc' = IF r.error = "none" THEN "returned" ELSE "threw"
    /\ createState' = cs
    /\ options' = opts
    /\ envFault' = fault
    /\ UNCHANGED name

Next ==
    \/ \E n \in StoreNames : CreateStoreName(n)
    \/ \E cs \in CreateStates, opts \in OptionsObjects, fault \in BOOLEAN :
          CreateStoreCall(cs, opts, fault)

Spec == Init /\ [][Next]_vars

----------------------------------------------------------------------------
(* Vocabulary of the properties *)

\* The inner call has run to its end.
Called == pc \in {"returned", "threw"}

\* The call had a non-throwing initializer and no failing middleware.
Benign == Called /\ ~createState.throws /\ ~envFault

\* The call handed an API back.
Returned == Len(apis) = 1

\* The key set of the state the initializer produced.
K == DOMAIN createState.state

\* The store states that set.<field> and set.state calls can produce.
StoreStates == {s \in States : K \subseteq DOMAIN s}

devtoolsOn ==
    /\ "devtools" \in DOMAIN options
    /\ "enabled" \in DOMAIN options["devtools"]
    /\ options["devtools"]["enabled"] = "true"

persistOn ==
    /\ "persist" \in DOMAIN options
    /\ "enabled" \in DOMAIN options["persist"]
    /\ options["persist"]["enabled"] = "true"

\* The middleware names of a state creator, innermost first.
wrapperNames(creator) ==
    [i \in 1..Len(creator.wrappers) |-> creator.wrappers[i].mw]

----------------------------------------------------------------------------
(* The properties *)

\* C1: for every state shape with key set K, createStore returns an API whose
\* get, set, use and useTracked sub-records each have exactly the key set K.
C1_AccessorKeySets ==
    Benign =>
        /\ Returned
        /\ DOMAIN apis[1].get = K
        /\ DOMAIN apis[1].set = K
        /\ DOMAIN apis[1].use = K
        /\ DOMAIN apis[1].useTracked = K

\* C2: on the API createStore returns, get.f() immediately after set.f(v)
\* returns v, for every field f, value v and store state.
C2_RoundTrip ==
    Benign =>
        /\ Returned
        /\ \A s \in StoreStates : \A f \in K : \A v \in Values :
              callGet(apis[1], callSet(apis[1], s, f, v), f) = v

\* C3: on the API createStore returns, set.f(v) leaves get.g() unchanged for
\* every other field g.
C3_Frame ==
    Benign =>
        /\ Returned
        /\ \A s \in StoreStates : \A f \in K : \A v \in Values :
              \A g \in K \ {f} :
                 callGet(apis[1], callSet(apis[1], s, f, v), g) = callGet(apis[1], s, g)

\* C4: createStore throws only when the initializer or an enabled middleware
\* throws; with a non-throwing initializer and no failing middleware it
\* returns the API without an error.
C4_ThrowsOnlyOnCollaboratorFailure ==
    Called =>
        /\ (error # "none") => (createState.throws \/ envFault)
        /\ Benign => (pc = "returned" /\ Returned)

C10_MiddlewareLabelling ==
    \A i \in 1..Len(handed) : \A j \in 1..Len(handed[i].wrappers) :
        LET w == handed[i].wrappers[j]
            given == options[w.mw]
        IN  /\ DOMAIN w.opts = DOMAIN given \cup {"name"}
            /\ \A k \in DOMAIN given \ {"name"} : w.opts[k] = given[k]
            /\ w.mw = "devtools" => w.opts["name"] = name
            /\ w.mw = "persist" =>
                  w.opts["name"] =
                     (IF "name" \in DOMAIN given THEN given["name"] ELSE name)

C10_Witness ==
    /\ Called
    /\ devtoolsOn /\ persistOn
    /\ "name" \in DOMAIN options["devtools"]
    /\ "name" \in DOMAIN options["persist"]
    /\ "extra" \in DOMAIN options["devtools"]
    /\ Len(handed) = 1
    /\ handed[1].wrappers[1].opts["name"] = name
    /\ handed[1].wrappers[2].opts["name"] = "custom"

----------------------------------------------------------------------------
(* Extension chains on the API createStore returns *)

\* Builders that register names no accessor carries yet.
FreshBuilders == {b \in Builders : b.names \cap Fields = {}}

\* C6: after a chain of extendSelectors / extendActions calls whose builders
\* register distinct names, get and set hold every per-field accessor and
\* every registered name, the second builder is handed maps that hold what
\* the first registered, and the result carries the extension methods again.
C6_ExtensionCumulative ==
    Benign =>
        /\ Returned
        /\ \A b1 \in FreshBuilders : \A b2 \in FreshBuilders :
              (b1.names \cap b2.names = {}) =>
                 LET s1 == callExtendSelectors(apis[1], b1)
                     s2 == callExtendSelectors(s1, b2)
                     a1 == callExtendActions(apis[1], b1)
                     a2 == callExtendActions(a1, b2)
                     m2 == callExtendActions(s1, b2)
                 IN  /\ DOMAIN s2.get = DOMAIN apis[1].get \cup b1.names \cup b2.names
                     /\ \A k \in DOMAIN s1.get : s2.get[k] = s1.get[k]
                     /\ \A k \in DOMAIN apis[1].get : s2.get[k] = apis[1].get[k]
                     /\ b1.names \subseteq DOMAIN s1.get
                     /\ DOMAIN a2.set = DOMAIN apis[1].set \cup b1.names \cup b2.names
                     /\ \A k \in DOMAIN a1.set : a2.set[k] = a1.set[k]
                     /\ b1.names \subseteq DOMAIN a1.set
                     /\ DOMAIN m2.get = DOMAIN apis[1].get \cup b1.names
                     /\ DOMAIN m2.set = DOMAIN apis[1].set \cup b2.names
                     /\ \A x \in {s1, s2, a1, a2, m2} :
                           /\ x.extendSelectors = "storeFactory"
                           /\ x.extendActions = "storeFactory"

\* C7: a builder that returns a name the sub-record already holds raises no
\* error; the returned API maps the name to the new function, the API the
\* extension was called on still maps it to the old one.
C7_Shadowing ==
    Benign =>
        /\ Returned
        /\ \A b \in Builders :
              LET old == apis[1]
                  s1 == callExtendSelectors(old, b)
                  a1 == callExtendActions(old, b)
              IN  /\ \A n \in b.names \cap DOMAIN old.get :
                        /\ s1.get[n] = accessor("selector", n, b.id)
                        /\ old.get[n] = accessor("get", n, "store")
                  /\ \A n \in b.names \cap DOMAIN old.set :
                        /\ a1.set[n] = accessor("action", n, b.id)
                        /\ old.set[n] = accessor("set", n, "store")

\* C8: every API of an extension chain refers to the store createStore
\* created: get.f() returns the same value through each of them after a
\* set.f(v) made through any of them.
C8_SameStore ==
    Benign =>
        /\ Returned
        /\ Len(stores) = 1
        /\ \A b1 \in FreshBuilders : \A b2 \in FreshBuilders :
              LET chain == <<apis[1],
                             callExtendSelectors(apis[1], b1),
                             callExtendActions(callExtendSelectors(apis[1], b1), b2)>>
              IN  \A i \in 1..3 :
                     /\ chain[i].store = storeObject(stores[1])
                     /\ \A j \in 1..3 : \A s \in StoreStates : \A f \in K : \A v \in Values :
                           callGet(chain[j], callSet(chain[i], s, f, v), f)
                              = callGet(apis[1], callSet(apis[1], s, f, v), f)

\* C9: the accessor key set is the key set of the state at creation; a
\* set.state that adds a top-level field adds no accessor for it.
C9_KeySetFixedAtCreation ==
    Benign =>
        /\ Returned
        /\ \A s \in StoreStates : \A partial \in States :
              LET s2 == callSetState(apis[1], s, partial)
              IN  /\ DOMAIN apis[1].get \ {"state"} = K
                  /\ DOMAIN apis[1].set \ {"state"} = K
                  /\ DOMAIN apis[1].use = K
                  /\ DOMAIN apis[1].useTracked = K
                  /\ \A g \in DOMAIN s2 \ K :
                        g \notin DOMAIN apis[1].get \cup DOMAIN apis[1].set
                                   \cup DOMAIN apis[1].use \cup DOMAIN apis[1].useTracked

====
